---- MODULE Spec2Model ----
(***************************************************************************)
(* Switch platform of the ocpp integration                                 *)
(* (custom_components/ocpp/switch.py).                                     *)
(*                                                                         *)
(* One ChargePointSwitch per charge point and service descriptor.  The     *)
(* model keeps the cached _state of every switch, the status metric the    *)
(* central system reports per charge point, and the turn_on / turn_off     *)
(* coroutines that are suspended in `await set_charger_state(...)`.        *)
(* is_on is synchronous and therefore one step; a coroutine is one step    *)
(* up to its await and one step from the answer of the central system to   *)
(* its end.                                                                *)
(***************************************************************************)
EXTENDS Integers, Sequences, FiniteSets, TLC

(* ------------------------------ bounds --------------------------------- *)

\* number of turn_on / turn_off calls made in one behaviour
MaxCommands == 2

\* number of coroutines suspended in set_charger_state at one time
MaxPending == 2

\* number of turn_on / turn_off calls made in one behaviour with two charge
\* points
MaxCommandsTwo == 1

(* --------------------------- python values ----------------------------- *)

\* dict.get of a missing key
None == "None"

\* a positional argument that the call does not pass
Absent == "Absent"

PyTrue == "True"

PyFalse == "False"

\* bool(x) of a value stored under "default"
PyBool(x) == x = PyTrue

(* ------------------------ service descriptors -------------------------- *)

Status == "Status"

Charging == "Charging"

Available == "Available"

SWITCH_CHARGE ==
    [name |-> "Charge_Control",
     on |-> "service_charge_start",
     off |-> "service_charge_stop",
     pulse |-> None,
     default |-> None,
     metric |-> Status,
     condition |-> Charging]

\* an Availability descriptor whose condition is the one of Charge_Control
SWITCH_AVAILABILITY_WHILE_CHARGING ==
    [name |-> "Availability",
     on |-> "service_availability",
     off |-> "service_availability",
     pulse |-> None,
     default |-> PyTrue,
     metric |-> Status,
     condition |-> Charging]

SWITCH_AVAILABILITY ==
    [name |-> "Availability",
     on |-> "service_availability",
     off |-> "service_availability",
     pulse |-> None,
     default |-> PyTrue,
     metric |-> Status,
     condition |-> Available]

\* a Reset descriptor that is given the status metric as well
SWITCH_RESET_WITH_METRIC ==
    [name |-> "Reset",
     on |-> "service_reset",
     off |-> None,
     pulse |-> PyTrue,
     default |-> None,
     metric |-> Status,
     condition |-> Available]

SWITCH_RESET ==
    [name |-> "Reset",
     on |-> "service_reset",
     off |-> None,
     pulse |-> PyTrue,
     default |-> None,
     metric |-> None,
     condition |-> None]

SWITCH_UNLOCK ==
    [name |-> "Unlock",
     on |-> "service_unlock",
     off |-> None,
     pulse |-> PyTrue,
     default |-> None,
     metric |-> None,
     condition |-> None]

\* the list async_setup_entry iterates over
Descriptors == {SWITCH_CHARGE, SWITCH_AVAILABILITY, SWITCH_RESET, SWITCH_UNLOCK}

\* entry.data[CONF_CPID] of the config entries that are set up
ChargePoints == {"CP_1"}

\* the entities async_setup_entry creates: one per charge point and descriptor
Entities == ChargePoints \X {d.name : d \in Descriptors}

cp_id(e) == e[1]

\* the descriptor async_setup_entry passes for the entity named e
configured(e) == CHOOSE d \in Descriptors : d.name = e[2]

\* what get_metric can report for the status metric: the two statuses the
\* descriptors compare with, or the unknown value, which like every other
\* status equals neither condition
MetricValues == {Charging, Available, None}

(* ------------------------------- state --------------------------------- *)

VARIABLES
    _state,     \* _state[e]: the cached state of entity e
    metric,     \* metric[cp]: what get_metric(cp, "Status") returns now
    pending,    \* the coroutines suspended in set_charger_state, in call order
    nCalls,     \* turn_on / turn_off calls made so far
    nSent,      \* set_charger_state calls made so far
    lastOp,     \* history: the step of an entity taken last
    _purpose,   \* _purpose[e]: the descriptor entity e was created with
    completed   \* history: the commands that have ended, in that order

vars == <<_state, metric, pending, nCalls, nSent, lastOp, _purpose, completed>>

\* self._purpose of entity e
purpose(e) == _purpose[e]

\* no call of set_charger_state
NoDispatch == [cp |-> None, cmd |-> None, value |-> None]

NoEntity == <<None, None>>

(* ---------------------- ChargePointSwitch methods ---------------------- *)

\* __init__ that ignores the default of the descriptor
init_state_off(p) == FALSE

\* __init__: the _state a new switch starts with
init_state(p) == IF p.default # None THEN PyBool(p.default) ELSE FALSE

\* is_on that trusts the cached state and never asks for the metric
is_on_cached(p, cur, resp) == [state |-> cur, ret |-> cur]

\* is_on that clears the cached state of a switch without metric once it
\* has been read
is_on_clearing(p, cur, resp) ==
    IF p.metric # None
    THEN [state |-> resp = p.condition, ret |-> resp = p.condition]
    ELSE [state |-> FALSE, ret |-> cur]

\* is_on that keeps the cached state while the metric is unknown
is_on_keeps_unknown(p, cur, resp) ==
    LET st == IF p.metric # None /\ resp # None THEN resp = p.condition ELSE cur
    IN  [state |-> st, ret |-> st]

\* is_on that returns the comparison without storing it
is_on_pure(p, cur, resp) ==
    [state |-> cur, ret |-> IF p.metric # None THEN resp = p.condition ELSE cur]

\* is_on: the _state the property leaves and the value it returns, for a
\* switch with descriptor p and cached state cur when get_metric returns resp
is_on(p, cur, resp) ==
    LET st == IF p.metric # None
              THEN (IF resp = p.condition THEN TRUE ELSE FALSE)
              ELSE cur
    IN  [state |-> st, ret |-> st]

\* async_turn_on that passes the wanted state explicitly
turn_on_dispatch_explicit(p, cp) == [cp |-> cp, cmd |-> p.on, value |-> PyTrue]

\* async_turn_on: the arguments of its set_charger_state call
turn_on_dispatch(p, cp) == [cp |-> cp, cmd |-> p.on, value |-> Absent]

\* async_turn_on that inverts the response for every descriptor
turn_on_state_inverted(p, resp) == ~resp

\* async_turn_on that never inverts the response
turn_on_state_plain(p, resp) == resp

\* async_turn_on: the _state it assigns once set_charger_state returned resp
turn_on_state(p, resp) == IF p.pulse = PyTrue THEN ~resp ELSE resp

\* async_turn_off that falls back to the on command when there is no off
\* command
turn_off_dispatch_fallback(p, cp) ==
    IF p.off = None \/ p.off = p.on
    THEN [cp |-> cp, cmd |-> p.on, value |-> PyFalse]
    ELSE [cp |-> cp, cmd |-> p.off, value |-> Absent]

\* async_turn_off that never passes a state
turn_off_dispatch_no_value(p, cp) ==
    IF p.off = None THEN NoDispatch
    ELSE [cp |-> cp, cmd |-> p.off, value |-> Absent]

\* async_turn_off: the arguments of its set_charger_state call, NoDispatch
\* in the branch that makes none
turn_off_dispatch(p, cp) ==
    IF p.off = None THEN NoDispatch
    ELSE IF p.off = p.on THEN [cp |-> cp, cmd |-> p.off, value |-> PyFalse]
    ELSE [cp |-> cp, cmd |-> p.off, value |-> Absent]

\* async_turn_off that stores the response as it is
turn_off_state_plain(resp) == resp

\* async_turn_off that always ends off
turn_off_state_false(resp) == FALSE

\* async_turn_off: the _state it assigns for response resp
turn_off_state(resp) == ~resp

(* ------------------------------ history -------------------------------- *)

\* the record of one step of entity e: what is_on returned, or what
\* set_charger_state answered the command (TRUE for the turn_off that sends
\* nothing)
Op(kind, e, ret) == [kind |-> kind, entity |-> e, ret |-> ret]

\* a coroutine of entity e suspended in set_charger_state(sent)
Task(op, e, sent) ==
    [op |-> op, entity |-> e, sent |-> sent, before |-> _state[e],
     undisturbed |-> TRUE]

\* pending without its k-th coroutine
Remove(q, k) == [j \in 1..(Len(q) - 1) |-> IF j < k THEN q[j] ELSE q[j + 1]]

\* the coroutines of q, those of entity e marked as having seen a command of
\* e complete
Disturb(q, e) ==
    [j \in 1..Len(q) |->
        IF q[j].entity = e THEN [q[j] EXCEPT !.undisturbed = FALSE] ELSE q[j]]

(* ------------------------------- steps --------------------------------- *)

\* async_setup_entry: a switch per descriptor for every charge point
Init ==
    /\ _purpose = [e \in Entities |-> configured(e)]
    /\ _state = [e \in Entities |-> init_state(configured(e))]
    /\ metric = [cp \in ChargePoints |-> None]
    /\ pending = <<>>
    /\ nCalls = 0
    /\ nSent = 0
    /\ lastOp = Op("init", NoEntity, FALSE)
    /\ completed = <<>>

\* the central system records a status notification of charge point cp
MetricUpdate(cp, v) ==
    /\ metric[cp] # v
    /\ metric' = [metric EXCEPT ![cp] = v]
    /\ UNCHANGED <<_state, pending, nCalls, nSent, lastOp, _purpose>>

\* the host reads e.is_on
IsOn(e) ==
    LET r == is_on(purpose(e), _state[e], metric[cp_id(e)])
    IN  /\ _state' = [_state EXCEPT ![e] = r.state]
        /\ lastOp' = Op("is_on", e, r.ret)
        /\ UNCHANGED <<metric, pending, nCalls, nSent, _purpose>>

\* async_turn_on that shows the switch on before the answer arrives
AsyncTurnOnOptimistic(e) ==
    LET d == turn_on_dispatch(purpose(e), cp_id(e))
    IN  /\ nCalls < MaxCommands
        /\ Len(pending) < MaxPending
        /\ nCalls' = nCalls + 1
        /\ nSent' = nSent + 1
        /\ pending' = Append(pending, Task("on", e, d))
        /\ lastOp' = Op("turn_on_call", e, FALSE)
        /\ _state' = [_state EXCEPT ![e] = TRUE]
        /\ UNCHANGED <<metric, _purpose>>

\* the host calls e.async_turn_on(): it runs to its await
AsyncTurnOn(e) ==
    LET d == turn_on_dispatch(purpose(e), cp_id(e))
    IN  /\ nCalls < MaxCommands
        /\ Len(pending) < MaxPending
        /\ nCalls' = nCalls + 1
        /\ nSent' = nSent + 1
        /\ pending' = Append(pending, Task("on", e, d))
        /\ lastOp' = Op("turn_on_call", e, FALSE)
        /\ UNCHANGED <<_state, metric, _purpose>>

\* async_turn_on that sends the command again when it was refused
TurnOnResumeRetry(k, resp) ==
    LET t == pending[k]
        e == t.entity
    IN  /\ t.op = "on"
        /\ IF resp
           THEN /\ _state' = [_state EXCEPT ![e] = turn_on_state(purpose(e), resp)]
                /\ pending' = Disturb(Remove(pending, k), e)
                /\ lastOp' = Op("turn_on_done", e, resp)
                /\ UNCHANGED <<metric, nCalls, nSent, _purpose>>
           ELSE /\ nSent < MaxCommands + 1
                /\ nSent' = nSent + 1
                /\ lastOp' = Op("turn_on_call", e, FALSE)
                /\ UNCHANGED <<_state, metric, pending, nCalls, _purpose>>

\* async_turn_on of a class that keeps _state per descriptor, not per
\* instance: the switches of the same name of all charge points follow
TurnOnResumeShared(k, resp) ==
    LET t == pending[k]
        e == t.entity
    IN  /\ t.op = "on"
        /\ _state' = [o \in DOMAIN _state |->
                         IF o[2] = e[2] THEN turn_on_state(purpose(e), resp)
                         ELSE _state[o]]
        /\ pending' = Disturb(Remove(pending, k), e)
        /\ lastOp' = Op("turn_on_done", e, resp)
        /\ UNCHANGED <<metric, nCalls, nSent, _purpose>>

\* async_turn_on that drops the answer when another command of the switch
\* has ended while it waited
TurnOnResumeStale(k, resp) ==
    LET t == pending[k]
        e == t.entity
    IN  /\ t.op = "on"
        /\ _state' = IF t.undisturbed
                     THEN [_state EXCEPT ![e] = turn_on_state(purpose(e), resp)]
                     ELSE _state
        /\ pending' = Disturb(Remove(pending, k), e)
        /\ lastOp' = Op("turn_on_done", e, resp)
        /\ UNCHANGED <<metric, nCalls, nSent, _purpose>>

\* set_charger_state answers resp to the k-th suspended coroutine, an
\* async_turn_on, which runs to its end
TurnOnResume(k, resp) ==
    LET t == pending[k]
        e == t.entity
    IN  /\ t.op = "on"
        /\ _state' = [_state EXCEPT ![e] = turn_on_state(purpose(e), resp)]
        /\ pending' = Disturb(Remove(pending, k), e)
        /\ lastOp' = Op("turn_on_done", e, resp)
        /\ UNCHANGED <<metric, nCalls, nSent, _purpose>>

\* async_turn_off that returns at once, _state untouched, when it has no
\* command to send
AsyncTurnOffSkips(e) ==
    LET d == turn_off_dispatch(purpose(e), cp_id(e))
    IN  /\ nCalls < MaxCommands
        /\ nCalls' = nCalls + 1
        /\ UNCHANGED _purpose
        /\ IF d = NoDispatch
           THEN /\ pending' = Disturb(pending, e)
                /\ lastOp' = Op("turn_off_done", e, TRUE)
                /\ UNCHANGED <<_state, metric, nSent>>
           ELSE /\ Len(pending) < MaxPending
                /\ nSent' = nSent + 1
                /\ pending' = Append(pending, Task("off", e, d))
                /\ lastOp' = Op("turn_off_call", e, FALSE)
                /\ UNCHANGED <<_state, metric>>

\* the host calls e.async_turn_off(): it runs to its await, or to its end
\* when it has no command to send
AsyncTurnOff(e) ==
    LET d == turn_off_dispatch(purpose(e), cp_id(e))
    IN  /\ nCalls < MaxCommands
        /\ nCalls' = nCalls + 1
        /\ UNCHANGED _purpose
        /\ IF d = NoDispatch
           THEN /\ _state' = [_state EXCEPT ![e] = turn_off_state(TRUE)]
                /\ pending' = Disturb(pending, e)
                /\ lastOp' = Op("turn_off_done", e, TRUE)
                /\ UNCHANGED <<metric, nSent>>
           ELSE /\ Len(pending) < MaxPending
                /\ nSent' = nSent + 1
                /\ pending' = Append(pending, Task("off", e, d))
                /\ lastOp' = Op("turn_off_call", e, FALSE)
                /\ UNCHANGED <<_state, metric>>

\* async_turn_off that raises when the command was refused: the coroutine
\* ends and leaves _state as it was
TurnOffResumeRaises(k, resp) ==
    LET t == pending[k]
        e == t.entity
    IN  /\ t.op = "off"
        /\ _state' = IF resp THEN [_state EXCEPT ![e] = turn_off_state(resp)]
                     ELSE _state
        /\ pending' = Disturb(Remove(pending, k), e)
        /\ lastOp' = Op("turn_off_done", e, resp)
        /\ UNCHANGED <<metric, nCalls, nSent, _purpose>>

\* set_charger_state answers resp to the k-th suspended coroutine, an
\* async_turn_off, which runs to its end
TurnOffResume(k, resp) ==
    LET t == pending[k]
        e == t.entity
    IN  /\ t.op = "off"
        /\ _state' = [_state EXCEPT ![e] = turn_off_state(resp)]
        /\ pending' = Disturb(Remove(pending, k), e)
        /\ lastOp' = Op("turn_off_done", e, resp)
        /\ UNCHANGED <<metric, nCalls, nSent, _purpose>>

\* the steps of the switches that exist; the history of ended commands is
\* not kept
Next ==
    \/ \E cp \in DOMAIN metric, v \in MetricValues :
          MetricUpdate(cp, v) /\ UNCHANGED completed
    \/ \E e \in DOMAIN _state : IsOn(e) /\ UNCHANGED completed
    \/ \E e \in DOMAIN _state : AsyncTurnOn(e) /\ UNCHANGED completed
    \/ \E e \in DOMAIN _state : AsyncTurnOff(e) /\ UNCHANGED completed
    \/ \E k \in 1..Len(pending), resp \in BOOLEAN :
          TurnOnResume(k, resp) /\ UNCHANGED completed
    \/ \E k \in 1..Len(pending), resp \in BOOLEAN :
          TurnOffResume(k, resp) /\ UNCHANGED completed

Spec == Init /\ [][Next]_vars

\* set_charger_state answers one of the suspended coroutines
Answer ==
    \E k \in 1..Len(pending), resp \in BOOLEAN :
        (TurnOnResume(k, resp) \/ TurnOffResume(k, resp)) /\ UNCHANGED completed

\* the behaviours in which set_charger_state answers every call in the end
SpecFair == Init /\ [][Next]_vars /\ WF_vars(Answer)

(* --------------------- history of ended commands ----------------------- *)

\* the record of a command of entity e that has ended: which it was, what
\* set_charger_state answered it (TRUE for the turn_off that sends nothing),
\* and whether a command of e called before it was still suspended then
Ended(op, e, resp, overtook) ==
    [op |-> op, entity |-> e, resp |-> resp, overtook |-> overtook]

\* the step has ended the k-th suspended coroutine: it is recorded
RecordResume(k, resp) ==
    completed' =
        IF Len(pending') < Len(pending)
        THEN Append(completed,
                    Ended(pending[k].op, pending[k].entity, resp,
                          \E j \in 1..(k - 1) :
                              pending[j].entity = pending[k].entity))
        ELSE completed

\* the step is an async_turn_off of e: it is recorded when it has run to its
\* end without a call of set_charger_state
RecordTurnOff(e) ==
    completed' =
        IF nSent' = nSent
        THEN Append(completed,
                    Ended("off", e, TRUE,
                          \E j \in 1..Len(pending) : pending[j].entity = e))
        ELSE completed

\* the steps of Next, with the history of ended commands kept
NextHist ==
    \/ \E cp \in DOMAIN metric, v \in MetricValues :
          MetricUpdate(cp, v) /\ UNCHANGED completed
    \/ \E e \in DOMAIN _state : IsOn(e) /\ UNCHANGED completed
    \/ \E e \in DOMAIN _state : AsyncTurnOn(e) /\ UNCHANGED completed
    \/ \E e \in DOMAIN _state : AsyncTurnOff(e) /\ RecordTurnOff(e)
    \/ \E k \in 1..Len(pending), resp \in BOOLEAN :
          TurnOnResume(k, resp) /\ RecordResume(k, resp)
    \/ \E k \in 1..Len(pending), resp \in BOOLEAN :
          TurnOffResume(k, resp) /\ RecordResume(k, resp)

SpecHist == Init /\ [][NextHist]_vars

(* ------------------- a switch of any descriptor ------------------------ *)

\* the descriptors ChargePointSwitch.__init__ accepts, by the keys its
\* methods read: "on" always, "off", "pulse", "default" and "metric" (with
\* "condition") present or not
AnyDescriptors ==
    {p \in [name : {"Any"},
            on : {"service_on"},
            off : {None, "service_on", "service_off"},
            pulse : {None, PyTrue, PyFalse},
            default : {None, PyTrue, PyFalse},
            metric : {None, Status},
            condition : {None, Charging}] :
        (p.metric = None) <=> (p.condition = None)}

AnySwitch == <<"CP_1", "Any">>

\* ChargePointSwitch(central_system, "CP_1", p) for a descriptor p
InitAny ==
    /\ _purpose \in [{AnySwitch} -> AnyDescriptors]
    /\ _state = [e \in {AnySwitch} |-> init_state(_purpose[e])]
    /\ metric = [cp \in ChargePoints |-> None]
    /\ pending = <<>>
    /\ nCalls = 0
    /\ nSent = 0
    /\ lastOp = Op("init", NoEntity, FALSE)
    /\ completed = <<>>

SpecAny == InitAny /\ [][NextHist]_vars

(* ------------------------- two charge points --------------------------- *)

\* two config entries, each with its own charge point
TwoChargePoints == {"CP_1", "CP_2"}

\* async_setup_entry of both entries
InitTwo ==
    /\ _purpose = [e \in TwoChargePoints \X {d.name : d \in Descriptors} |->
                      configured(e)]
    /\ _state = [e \in DOMAIN _purpose |-> init_state(_purpose[e])]
    /\ metric = [cp \in TwoChargePoints |-> None]
    /\ pending = <<>>
    /\ nCalls = 0
    /\ nSent = 0
    /\ lastOp = Op("init", NoEntity, FALSE)
    /\ completed = <<>>

\* the steps of Next, with the smaller number of commands
NextTwo ==
    \/ \E cp \in DOMAIN metric, v \in MetricValues :
          MetricUpdate(cp, v) /\ UNCHANGED completed
    \/ \E e \in DOMAIN _state : IsOn(e) /\ UNCHANGED completed
    \/ \E e \in DOMAIN _state :
          nCalls < MaxCommandsTwo /\ AsyncTurnOn(e) /\ UNCHANGED completed
    \/ \E e \in DOMAIN _state :
          nCalls < MaxCommandsTwo /\ AsyncTurnOff(e) /\ UNCHANGED completed
    \/ \E k \in 1..Len(pending), resp \in BOOLEAN :
          TurnOnResume(k, resp) /\ UNCHANGED completed
    \/ \E k \in 1..Len(pending), resp \in BOOLEAN :
          TurnOffResume(k, resp) /\ UNCHANGED completed

SpecTwo == InitTwo /\ [][NextTwo]_vars

(* ------------------------------ claims --------------------------------- *)

Charge == <<"CP_1", "Charge_Control">>

Availability == <<"CP_1", "Availability">>

Reset == <<"CP_1", "Reset">>

HasMetric(e) == purpose(e).metric # None

IsPulse(e) == purpose(e).pulse = PyTrue

\* C1: in every state, however it was reached, is_on of a switch with a
\* metric returns true exactly when the metric the central system reports
\* for its charge point in that state equals the condition.
C1_IsOnFollowsMetric ==
    [][\A e \in Entities :
          (IsOn(e) /\ HasMetric(e))
              => (lastOp'.ret <=> (metric[cp_id(e)] = purpose(e).condition))
      ]_vars

\* the Availability switch, created on, read off while the charge point
\* reports Charging
C1_Witness ==
    /\ lastOp = Op("is_on", Availability, FALSE)
    /\ metric["CP_1"] = Charging
    /\ nCalls > 0

\* C2: when set_charger_state answers an async_turn_on of a switch that is
\* not a pulse switch, _state becomes the answer.
C2_TurnOnStoresResponse ==
    [][\A k \in 1..Len(pending), resp \in BOOLEAN :
          (TurnOnResume(k, resp) /\ ~IsPulse(pending[k].entity))
              => _state'[pending[k].entity] = resp
      ]_vars

\* a refused charge start leaves the Charge_Control switch off
C2_Witness ==
    /\ lastOp = Op("turn_on_done", Charge, FALSE)
    /\ _state[Charge] = FALSE

\* C3: when set_charger_state answers an async_turn_on of a pulse switch
\* without metric, _state becomes the negation of the answer, and is_on in
\* the state reached returns that negation.
C3_PulseTurnOnInvertsResponse ==
    [][\A k \in 1..Len(pending), resp \in BOOLEAN :
          LET e == pending[k].entity
          IN  (TurnOnResume(k, resp) /\ IsPulse(e) /\ ~HasMetric(e))
                  => /\ _state'[e] = ~resp
                     /\ is_on(purpose(e), _state'[e], metric'[cp_id(e)]).ret = ~resp
      ]_vars

\* a refused reset leaves the Reset switch on
C3_Witness ==
    /\ lastOp = Op("turn_on_done", Reset, FALSE)
    /\ _state[Reset] = TRUE

\* C4: async_turn_off ends with _state = ~resp in each of its branches:
\* false when it sends nothing (resp = True), the negated answer when it sent
\* the on command and when it sent another command.
C4_TurnOffStoresNegation ==
    [][/\ \A e \in Entities :
              (AsyncTurnOff(e) /\ purpose(e).off = None) => _state'[e] = FALSE
       /\ \A k \in 1..Len(pending), resp \in BOOLEAN :
              TurnOffResume(k, resp) => _state'[pending[k].entity] = ~resp
      ]_vars

\* a refused charge stop leaves the Charge_Control switch on
C4_Witness ==
    /\ lastOp = Op("turn_off_done", Charge, FALSE)
    /\ _state[Charge] = TRUE

\* C5 as stated: a command whose dispatch was answered false leaves _state
\* false, except async_turn_on of a pulse switch, which leaves it true.
C5_FailedDispatchLeavesOff ==
    (lastOp.kind \in {"turn_on_done", "turn_off_done"} /\ lastOp.ret = FALSE)
        => (_state[lastOp.entity]
                <=> (lastOp.kind = "turn_on_done" /\ IsPulse(lastOp.entity)))

\* C5 amended: a command whose dispatch was answered false leaves _state
\* false when it is async_turn_on of a switch that is not a pulse switch, and
\* true when it is async_turn_on of a pulse switch or async_turn_off.
C5_FailedDispatchState ==
    (lastOp.kind \in {"turn_on_done", "turn_off_done"} /\ lastOp.ret = FALSE)
        => (_state[lastOp.entity]
                <=> (lastOp.kind = "turn_off_done" \/ IsPulse(lastOp.entity)))

\* a refused availability change to inoperative leaves the Availability
\* switch on
C5_Witness ==
    /\ lastOp = Op("turn_off_done", Availability, FALSE)
    /\ _state[Availability] = TRUE

\* the coroutine suspended by the step, the last of pending'
Issued == pending'[Len(pending')]

\* the step calls set_charger_state once and suspends one more coroutine
OneDispatch == nSent' = nSent + 1 /\ Len(pending') = Len(pending) + 1

\* the step calls set_charger_state not at all and suspends no coroutine
NoNewDispatch == nSent' = nSent /\ Len(pending') <= Len(pending)

\* C6: async_turn_off of a switch without off command calls
\* set_charger_state not at all and leaves _state false, whatever _state was.
C6_TurnOffWithoutCommand ==
    [][\A e \in Entities :
          (AsyncTurnOff(e) /\ purpose(e).off = None)
              => /\ NoNewDispatch
                 /\ _state'[e] = FALSE
      ]_vars

\* the Reset switch turned off after an async_turn_on of it has completed:
\* one dispatch in all, that of the async_turn_on
C6_Witness ==
    /\ lastOp = Op("turn_off_done", Reset, TRUE)
    /\ nCalls = 2
    /\ nSent = 1
    /\ pending = <<>>
    /\ _state[Reset] = FALSE

\* C7: async_turn_off of a switch whose off command is its on command calls
\* set_charger_state once, for the switch's charge point, with the on
\* command and the state False; the step that takes the answer calls it no
\* more.
C7_SharedCommandTurnOff ==
    [][/\ \A e \in Entities :
              (AsyncTurnOff(e) /\ purpose(e).off = purpose(e).on)
                  => /\ OneDispatch
                     /\ Issued.sent = [cp |-> cp_id(e), cmd |-> purpose(e).on,
                                       value |-> PyFalse]
       /\ \A k \in 1..Len(pending), resp \in BOOLEAN :
              TurnOffResume(k, resp) => NoNewDispatch
      ]_vars

\* the Availability switch suspended in its call with the state False
C7_Witness ==
    /\ lastOp = Op("turn_off_call", Availability, FALSE)
    /\ nSent = 1
    /\ Len(pending) = 1
    /\ pending[1].sent = [cp |-> "CP_1", cmd |-> "service_availability",
                          value |-> PyFalse]

\* C8: every async_turn_on calls set_charger_state with the on command and
\* no state, async_turn_off with an off command other than the on command
\* calls it with the off command and no state, and a call that passes a
\* state is that of an async_turn_off whose off command is the on command
\* and passes False.
C8_ValueOnlyOnSharedTurnOff ==
    [][\A e \in Entities :
          /\ AsyncTurnOn(e)
                => /\ OneDispatch
                   /\ Issued.sent = [cp |-> cp_id(e), cmd |-> purpose(e).on,
                                     value |-> Absent]
          /\ (AsyncTurnOff(e) /\ purpose(e).off \notin {None, purpose(e).on})
                => /\ OneDispatch
                   /\ Issued.sent = [cp |-> cp_id(e), cmd |-> purpose(e).off,
                                     value |-> Absent]
          /\ ((AsyncTurnOn(e) \/ AsyncTurnOff(e)) /\ nSent' # nSent
                 /\ Issued.sent.value # Absent)
                => /\ AsyncTurnOff(e)
                   /\ purpose(e).off = purpose(e).on
                   /\ Issued.sent.value = PyFalse
      ]_vars

\* the Availability switch, whose two commands are one, turned on: the call
\* passes no state
C8_Witness ==
    /\ lastOp = Op("turn_on_call", Availability, FALSE)
    /\ Len(pending) = 2
    /\ pending[1].sent.value = PyFalse
    /\ pending[2].sent = [cp |-> "CP_1", cmd |-> "service_availability",
                          value |-> Absent]

\* the step ends a command of entity e: the answer to one of its suspended
\* coroutines, or its async_turn_off that sends nothing
Completes(e) ==
    \/ \E k \in 1..Len(pending), resp \in BOOLEAN :
          /\ pending[k].entity = e
          /\ TurnOnResume(k, resp) \/ TurnOffResume(k, resp)
    \/ AsyncTurnOff(e) /\ purpose(e).off = None

\* the step is a call of a command of entity e that sends a dispatch and
\* suspends
Dispatches(e) == AsyncTurnOn(e) \/ (AsyncTurnOff(e) /\ purpose(e).off # None)

\* C9 as stated: is_on leaves _state as it was, for every switch, and _state
\* of a switch changes only in a step that ends one of its commands.
C9_IsOnIsPure ==
    [][\A e \in Entities :
          /\ IsOn(e) => _state' = _state
          /\ _state'[e] # _state[e] => Completes(e)
      ]_vars

\* C9 amended: is_on leaves _state as it was for a switch without metric and
\* sets it to the result of the comparison for a switch with a metric;
\* _state of a switch changes only in a step that ends one of its commands
\* or in is_on of a switch with a metric.
C9_IsOnWritesOnlyMetricState ==
    [][\A e \in Entities :
          /\ (IsOn(e) /\ ~HasMetric(e)) => _state' = _state
          /\ (IsOn(e) /\ HasMetric(e))
                => _state' = [_state EXCEPT
                                 ![e] = (metric[cp_id(e)] = purpose(e).condition)]
          /\ _state'[e] # _state[e] => (Completes(e) \/ (IsOn(e) /\ HasMetric(e)))
      ]_vars

\* the Availability switch, created on, is off after is_on although no
\* command was ever called
C9_Witness ==
    /\ lastOp = Op("is_on", Availability, FALSE)
    /\ nCalls = 0
    /\ _state[Availability] = FALSE

\* C10 as stated: the step of a command that sends the dispatch leaves
\* _state as it was, and is_on of a switch without metric, read while a
\* command of the switch is suspended, returns the _state the switch had when
\* that command was called.
C10_ReadWhilePendingReturnsOld ==
    [][\A e \in Entities :
          /\ Dispatches(e) => _state' = _state
          /\ (IsOn(e) /\ ~HasMetric(e))
                => \A k \in 1..Len(pending) :
                      pending[k].entity = e => lastOp'.ret = pending[k].before
      ]_vars

\* C10 amended: the step of a command that sends the dispatch leaves _state
\* as it was, and is_on of a switch without metric, read while a command of
\* the switch is suspended, returns the _state the switch had when that
\* command was called unless another command of the same switch has ended
\* since.
C10_NoSpeculativeUpdate ==
    [][\A e \in Entities :
          /\ Dispatches(e) => _state' = _state
          /\ (IsOn(e) /\ ~HasMetric(e))
                => \A k \in 1..Len(pending) :
                      (pending[k].entity = e /\ pending[k].undisturbed)
                          => lastOp'.ret = pending[k].before
      ]_vars

\* the Reset switch, left on by a refused reset, read on while a second
\* reset waits for its answer
C10_Witness ==
    /\ lastOp = Op("is_on", Reset, TRUE)
    /\ nCalls = 2
    /\ Len(pending) = 1
    /\ pending[1] = [op |-> "on", entity |-> Reset,
                     sent |-> [cp |-> "CP_1", cmd |-> "service_reset",
                               value |-> Absent],
                     before |-> TRUE, undisturbed |-> TRUE]

\* the number of elements of sequence q, of kind op, that satisfy Test
Count(q, op, Test(_)) ==
    Cardinality({j \in 1..Len(q) : q[j].op = op /\ Test(q[j].entity)})

AnyEntity(e) == TRUE

HasOffCommand(e) == purpose(e).off # None

\* the async_turn_on calls made so far: ended or suspended
Activations == Count(completed, "on", AnyEntity) + Count(pending, "on", AnyEntity)

\* the async_turn_off calls made so far on switches with an off command
DeactivationsWithCommand ==
    Count(completed, "off", HasOffCommand) + Count(pending, "off", HasOffCommand)

\* the async_turn_off calls made so far on switches without off command
DeactivationsWithoutCommand ==
    LET NoOffCommand(e) == ~HasOffCommand(e)
    IN  Count(completed, "off", NoOffCommand)

\* C11: the number of set_charger_state calls made is the number of
\* async_turn_on calls plus the number of async_turn_off calls on switches
\* with an off command, whatever the answers were; the other calls
\* (async_turn_off without off command) and is_on add none.
C11_OneDispatchPerCommand ==
    /\ nSent = Activations + DeactivationsWithCommand
    /\ nCalls = nSent + DeactivationsWithoutCommand

\* a refused reset and a turn_off of the Reset switch have ended: one
\* dispatch for two calls
C11_Witness ==
    /\ completed = <<Ended("on", Reset, FALSE, FALSE), Ended("off", Reset, TRUE, FALSE)>>
    /\ lastOp.kind = "is_on"
    /\ nSent = 1

\* C12: while get_metric reports the unknown value, is_on of a switch with
\* a metric can be read and returns false, whatever the default of its
\* descriptor and whatever _state was.
C12_UnknownMetricReadsOff ==
    [][\A e \in Entities :
          (HasMetric(e) /\ metric[cp_id(e)] = None)
              => /\ ENABLED IsOn(e)
                 /\ IsOn(e) => (lastOp'.ret = FALSE /\ _state'[e] = FALSE)
      ]_vars

\* the Availability switch, whose default is on, read off before any status
\* of the charge point is known
C12_Witness ==
    /\ lastOp = Op("is_on", Availability, FALSE)
    /\ purpose(Availability).default = PyTrue
    /\ metric["CP_1"] = None
    /\ pending = <<>>

\* no command of entity e has ended yet
NoneEnded(e) == \A j \in 1..Len(completed) : completed[j].entity # e

\* C13: a new switch has _state true when the default of its descriptor is
\* True and false when it is False or absent; a switch without metric keeps
\* that _state, and every is_on of it returns it, until a command of the
\* switch has ended.
C13_InitialStateIsDefault ==
    \A e \in DOMAIN _state :
        LET start == (purpose(e).default = PyTrue)
        IN  /\ lastOp.kind = "init" => _state[e] = start
            /\ (~HasMetric(e) /\ NoneEnded(e))
                  => /\ _state[e] = start
                     /\ (lastOp.kind = "is_on" /\ lastOp.entity = e)
                           => lastOp.ret = start

\* a switch without metric whose default is True, read on while its first
\* command waits for its answer
C13_Witness ==
    /\ purpose(AnySwitch).default = PyTrue
    /\ purpose(AnySwitch).metric = None
    /\ purpose(AnySwitch).pulse = None
    /\ lastOp = Op("is_on", AnySwitch, TRUE)
    /\ Len(pending) = 1
    /\ completed = <<>>

\* the step is the answer resp to the k-th suspended coroutine
Answered(k, resp) == TurnOnResume(k, resp) \/ TurnOffResume(k, resp)

\* C14: when set_charger_state answers every call, every suspended command
\* ends.  Whatever the answer, the coroutine can take it and ends in that
\* step with _state assigned, a refusal leaving _state true for
\* async_turn_off and for a pulse switch and false otherwise; a coroutine
\* leaves the suspended ones in no step but that of its answer.
C14_CommandsEnd ==
    /\ (pending # <<>>) ~> (pending = <<>>)
    /\ [](\A k \in 1..Len(pending), resp \in BOOLEAN :
              ENABLED (Answered(k, resp) /\ UNCHANGED completed))
    /\ [][/\ \A k \in 1..Len(pending), resp \in BOOLEAN :
                Answered(k, resp) => Len(pending') = Len(pending) - 1
          /\ \A k \in 1..Len(pending) :
                Answered(k, FALSE)
                    => (_state'[pending[k].entity]
                           <=> (pending[k].op = "off" \/ IsPulse(pending[k].entity)))
          /\ Len(pending') < Len(pending)
                => \E k \in 1..Len(pending), resp \in BOOLEAN : Answered(k, resp)
         ]_vars

\* both commands of the behaviour have ended, the last one refused
C14_Witness ==
    /\ nCalls = MaxCommands
    /\ nSent = MaxCommands
    /\ pending = <<>>
    /\ lastOp = Op("turn_off_done", Charge, FALSE)
    /\ _state[Charge] = TRUE

\* C15: _state of a switch changes in no step but one of its own (its
\* is_on, the end of one of its commands), so a step of a switch leaves
\* _state of every other switch, of its own and of the other charge point,
\* as it was; no step changes a descriptor; and a set_charger_state call
\* names the charge point of the switch whose command makes it.
C15_SwitchesAreIndependent ==
    [][/\ \A o \in DOMAIN _state :
              _state'[o] # _state[o] => (IsOn(o) \/ Completes(o))
       /\ _purpose' = _purpose
       /\ nSent' # nSent
             => /\ AsyncTurnOn(Issued.entity) \/ AsyncTurnOff(Issued.entity)
                /\ Issued.sent.cp = cp_id(Issued.entity)
      ]_vars

\* a refused reset of the second charge point has left its Reset switch on
\* and that of the first charge point off
C15_Witness ==
    /\ lastOp = Op("turn_on_done", <<"CP_2", "Reset">>, FALSE)
    /\ _state[<<"CP_2", "Reset">>] = TRUE
    /\ _state[<<"CP_1", "Reset">>] = FALSE
    /\ nSent = 1

\* the ways of deriving the state that descriptor p configures, among Which
Modes(p, Which) ==
    {m \in Which :
        \/ m = "metric" /\ p.metric # None
        \/ m = "pulse" /\ p.pulse = PyTrue
        \/ m = "default" /\ p.default # None}

\* C16 as stated: each switch that is set up has a descriptor with exactly
\* one of: a metric, pulse True, a default.
C16_ExactlyOneMode ==
    \A e \in DOMAIN _state :
        Cardinality(Modes(purpose(e), {"metric", "pulse", "default"})) = 1

\* C16 amended: each switch that is set up has a descriptor with exactly one
\* of: a metric, pulse True; a default is set on the Availability descriptor
\* alone, which has a metric as well.
C16_MetricOrPulse ==
    \A e \in DOMAIN _state :
        /\ Cardinality(Modes(purpose(e), {"metric", "pulse"})) = 1
        /\ (purpose(e).default # None) <=> (purpose(e).name = "Availability")
        /\ purpose(e).name = "Availability"
              => Modes(purpose(e), {"metric", "pulse", "default"})
                     = {"metric", "default"}

\* the Availability switch as created: on by its default, and with a metric
C16_Witness ==
    /\ lastOp.kind = "init"
    /\ _state[Availability] = TRUE
    /\ purpose(Availability).default = PyTrue
    /\ purpose(Availability).metric = Status

\* C17: after is_on, _state of the switch is the value returned: for a
\* switch with a metric the result of the comparison, stored; for a switch
\* without metric the _state it had, left as it was and returned whatever
\* get_metric would report.
C17_IsOnStoresWhatItReturns ==
    [][\A e \in Entities :
          IsOn(e)
              => /\ _state'[e] = lastOp'.ret
                 /\ HasMetric(e)
                       => lastOp'.ret = (metric[cp_id(e)] = purpose(e).condition)
                 /\ ~HasMetric(e)
                       => /\ _state' = _state
                          /\ \A m \in MetricValues :
                                is_on(purpose(e), _state[e], m).ret = _state[e]
      ]_vars

\* the Charge_Control switch is on although no command was called: is_on
\* has stored the comparison with the status Charging
C17_Witness ==
    /\ lastOp = Op("is_on", Charge, TRUE)
    /\ _state[Charge] = TRUE
    /\ metric["CP_1"] = Charging
    /\ nCalls = 0

\* the positions in completed of the commands of switch e
EndedOf(e) == {j \in 1..Len(completed) : completed[j].entity = e}

\* the command of switch e that ended last
LastEndedOf(e) ==
    completed[CHOOSE j \in EndedOf(e) : \A i \in EndedOf(e) : i <= j]

\* C18: a pulse switch without off command and without metric (Reset,
\* Unlock) has _state true exactly when the command of it that ended last is
\* an async_turn_on whose set_charger_state call was refused; when an
\* accepted async_turn_on and then an async_turn_off are all that has run,
\* _state is false and one set_charger_state call has been made.
C18_PulseOnOnlyAfterRefusal ==
    \A e \in DOMAIN _state :
        (IsPulse(e) /\ ~HasMetric(e) /\ ~HasOffCommand(e))
            => /\ _state[e] <=> /\ EndedOf(e) # {}
                                /\ LastEndedOf(e).op = "on"
                                /\ ~LastEndedOf(e).resp
               /\ (lastOp.kind = "is_on" /\ lastOp.entity = e)
                     => lastOp.ret = _state[e]
               /\ (/\ pending = <<>>
                   /\ completed = <<Ended("on", e, TRUE, FALSE),
                                    Ended("off", e, TRUE, FALSE)>>)
                     => (nSent = 1 /\ ~_state[e])

\* an accepted reset, then a turn_off of the Reset switch, then a read: off,
\* one set_charger_state call made
C18_Witness ==
    /\ completed = <<Ended("on", Reset, TRUE, FALSE), Ended("off", Reset, TRUE, FALSE)>>
    /\ lastOp = Op("is_on", Reset, FALSE)
    /\ nSent = 1
    /\ ~_state[Reset]

\* _state as the command c of switch e leaves it when it ends
LeftBy(c, e) ==
    IF c.op = "on" THEN turn_on_state(purpose(e), c.resp)
    ELSE turn_off_state(c.resp)

\* the commands of switch e that have ended are an async_turn_off, called
\* while an async_turn_on called before it waited for its answer, and then
\* that async_turn_on, both accepted
OnAnsweredAfterLaterOff(e) ==
    /\ HasOffCommand(e)
    /\ pending = <<>>
    /\ completed = <<Ended("off", e, TRUE, TRUE), Ended("on", e, TRUE, FALSE)>>

Reads(e, m) == is_on(purpose(e), _state[e], m).ret

\* C20: the Charge_Control and the Availability switch of a charge point
\* compare the same metric with different conditions: whatever the status
\* is, and whatever commands were called on either switch and however they
\* were answered, is_on returns true for at most one of the two.
C20_ChargeAndAvailabilityExclusive ==
    /\ purpose(Charge).metric = purpose(Availability).metric
    /\ purpose(Charge).condition # purpose(Availability).condition
    /\ \A m \in MetricValues \cup {metric[cp_id(Charge)]} :
          ~(Reads(Charge, m) /\ Reads(Availability, m))

\* Charge_Control was turned on and its command accepted while Availability
\* kept the _state true it was created with; Charge_Control is then read
\* on, with the status Charging
C20_Witness ==
    /\ _state[Charge] = TRUE
    /\ _state[Availability] = TRUE
    /\ \E j \in 1..Len(completed) : completed[j] = Ended("on", Charge, TRUE, FALSE)
    /\ lastOp = Op("is_on", Charge, TRUE)
    /\ metric["CP_1"] = Charging

====
